---- MODULE Spec2Model ----
(***************************************************************************)
(* Model of Soft/Embedded/Core/Src/sys.c: the deferred-call queue          *)
(* (sys_queue / sys_queue_id / sys_task) and the software timeout engine   *)
(* (sys_timeout_add / sys_timeout_del / sys_timer_callback) that shares    *)
(* one periodic os_timer, plus sys_shutdown.                               *)
(*                                                                         *)
(* Spec       whole API calls and whole tick callbacks, timer centred.     *)
(* SpecQueue  the same actions with a call budget large enough to fill the *)
(*            32-slot queue.                                               *)
(* FairFifo   sys_queue calls, timeouts and drains without sys_shutdown,    *)
(*            the host task runner weakly fair.                            *)
(* SpecDown   the same actions and sys_shutdown.                           *)
(* SpecIrq    sys_queue executed statement by statement in normal context  *)
(*            with the tick callback able to run between two statements.   *)
(* SpecTimerIrq  the same for sys_timeout_add and sys_timeout_del.         *)
(* SpecSlots  sys_timeout_add calls enough to occupy the 16 slots.         *)
(***************************************************************************)
EXTENDS Integers, Sequences, FiniteSets, TLC

(* ---- program constants ------------------------------------------------ *)
SYS_NEVENTS == 32
SYS_NTIMEOUTS == 16
SYS_TIMER_PERIOD == 1
INT_MAX == 2147483647
INT_MIN == -INT_MAX - 1

(* ---- bounds of the exploration ---------------------------------------- *)
\* sys_queue calls explored by Spec and SpecIrq
MaxQueueCalls == 2
\* sys_queue calls explored by SpecQueue beyond the SYS_NEVENTS that fill it
ExtraCalls == 1
\* successful sys_timeout_add calls explored
MaxAdds == 2
\* largest delay, in ms, passed to sys_timeout_add
MaxDelay == 2
\* ticks of the 1 ms period explored by Spec / by SpecQueue
MaxTicks == 3
MaxTicksQueue == 2
\* failed sys_timeout_add calls in a row explored
MaxPanics == 2

NULL == "NULL"
\* handlers and contexts are opaque to sys.c (only compared with NULL)
QueueHandlers == {"hq"}
QueueCtxs == {"cq"}
TimerHandlers == {"ht"}
TimerCtxs == {"ct"}

VARIABLES
    sys_events,             \* sys_event_t sys_events[SYS_NEVENTS]
    sys_event_put,
    sys_event_get,
    sys_event_count,
    sys_full_signaled,
    sys_shutdown_requested,
    sys_timer_idle,
    sys_timeouts,           \* sys_event_t sys_timeouts[SYS_NTIMEOUTS]
    sys_timeout_dt,
    sys_timeout_count,
    sys_period,
    timer_armed,            \* os_timer sys_timer: armed by os_timer_arm
    task_posts,             \* messages posted to USER_TASK_PRIO_2, not yet delivered
    pc,                     \* normal context: statement of sys_queue about to run
    loc,                    \* normal context: locals of sys_queue / sys_queue_id
    ret,                    \* last completed call and the value it returned
    now,                    \* ticks of SYS_TIMER_PERIOD elapsed since sys_init
    enq_log,                \* entries written by sys_queue_id, in order
    inv_log,                \* handlers invoked by sys_task, in order
    added,                  \* timers armed by sys_timeout_add
    fired,                  \* timers expired in a sweep, in order
    deleted,                \* sys_timeout_del calls that cleared a slot or came before any tick
    panic_full,             \* "PANIC: System event queue is full" lines printed since the last accepted enqueue
    panic_busy              \* "PANIC: All timeout slots are busy" lines printed since the last accepted add

vars == << sys_events, sys_event_put, sys_event_get, sys_event_count,
           sys_full_signaled, sys_shutdown_requested, sys_timer_idle,
           sys_timeouts, sys_timeout_dt, sys_timeout_count, sys_period,
           timer_armed, task_posts, pc, loc, ret, now, enq_log, inv_log,
           added, fired, deleted, panic_full, panic_busy >>

queue_vars == << sys_events, sys_event_put, sys_event_get, sys_event_count,
                 sys_full_signaled, task_posts, enq_log, inv_log, panic_full >>

timer_vars == << sys_timer_idle, sys_timeouts, sys_timeout_dt,
                 sys_timeout_count, sys_period, timer_armed,
                 added, fired, deleted, panic_busy >>

(* ---- C integer arithmetic --------------------------------------------- *)
\* A 32-bit word is held as the int with the same bits, so a uint32_t above
\* INT_MAX is held as the negative int of the same bit pattern.

\* a + b in 32 bits, wrapping
Add32(a, b) ==
    IF (b > 0) /\ (a > INT_MAX - b) THEN (a - INT_MAX - 1) + (b - INT_MAX - 1)
    ELSE IF (b < 0) /\ (a < INT_MIN - b) THEN (a + INT_MAX + 1) + (b + INT_MAX + 1)
    ELSE a + b

\* a - b in 32 bits, wrapping
Sub32(a, b) ==
    IF b = INT_MIN THEN Add32(Add32(a, INT_MAX), 1) ELSE Add32(a, -b)

\* a < b, both read as uint32_t
ULess(a, b) ==
    IF (a >= 0) = (b >= 0) THEN a < b ELSE a >= 0

(* ---- sys_event_t ------------------------------------------------------ *)
sys_event_t(handler, ctx, id, timeout) ==
    [handler |-> handler, ctx |-> ctx, id |-> id, timeout |-> timeout]

Call(handler, ctx, id) == [handler |-> handler, ctx |-> ctx, id |-> id]

(* ---- deferred-call queue ---------------------------------------------- *)
\* sys_queue_len without the correction for a wrapped write index
sys_queue_len_no_wrap(put, get) == put - get

sys_queue_len(put, get) ==
    LET len == put - get IN IF len >= 0 THEN len ELSE SYS_NEVENTS + len

\* system_os_post(USER_TASK_PRIO_2, 0, 0): the task fifo holds SYS_NEVENTS messages
system_os_post(posts) == IF posts < SYS_NEVENTS THEN posts + 1 ELSE posts

\* the queue as sys_queue_id reads and writes it
QueueState ==
    [events |-> sys_events, put |-> sys_event_put, full |-> sys_full_signaled,
     posts |-> task_posts, log |-> enq_log, panic |-> panic_full, ret |-> 0]

\* sys_queue_id with the capacity test off by one (> for >=)
sys_queue_id_off_by_one(q, get, count, handler, ctx, id) ==
    IF sys_queue_len(q.put, get) > SYS_NEVENTS - 1
    THEN [q EXCEPT !.panic = IF q.full = 0 THEN q.panic + 1 ELSE q.panic,
                   !.full = 1, !.ret = -1]
    ELSE [q EXCEPT !.full = 0,
                   !.panic = 0,
                   !.events[q.put] = sys_event_t(handler, ctx, id, 0),
                   !.put = IF q.put + 1 >= SYS_NEVENTS THEN 0 ELSE q.put + 1,
                   !.posts = system_os_post(q.posts),
                   !.log = Append(q.log, Call(handler, ctx, id)),
                   !.ret = count]

sys_queue_id(q, get, count, handler, ctx, id) ==
    IF sys_queue_len(q.put, get) >= SYS_NEVENTS - 1
    THEN [q EXCEPT !.panic = IF q.full = 0 THEN q.panic + 1 ELSE q.panic,
                   !.full = 1, !.ret = -1]
    ELSE [q EXCEPT !.full = 0,
                   !.panic = 0,
                   !.events[q.put] = sys_event_t(handler, ctx, id, 0),
                   !.put = IF q.put + 1 >= SYS_NEVENTS THEN 0 ELSE q.put + 1,
                   !.posts = system_os_post(q.posts),
                   !.log = Append(q.log, Call(handler, ctx, id)),
                   !.ret = count]

\* sys_event_count++; if (sys_event_count < 0) sys_event_count = 0;
NextEventCount(count) ==
    LET c == Add32(count, 1) IN IF c < 0 THEN 0 ELSE c

\* sys_queue without the test of sys_shutdown_requested
sys_queue_unchecked(handler, ctx) ==
    LET count == NextEventCount(sys_event_count)
        q == sys_queue_id(QueueState, sys_event_get, count, handler, ctx, count)
    IN  /\ sys_event_count' = count
        /\ sys_events' = q.events
        /\ sys_event_put' = q.put
        /\ sys_full_signaled' = q.full
        /\ task_posts' = q.posts
        /\ enq_log' = q.log
        /\ panic_full' = q.panic
        /\ ret' = [op |-> "sys_queue", val |-> q.ret]

\* sys_queue(handler, ctx), run without preemption
sys_queue(handler, ctx) ==
    IF sys_shutdown_requested = 1
    THEN /\ ret' = [op |-> "sys_queue", val |-> -1]
         /\ UNCHANGED << sys_events, sys_event_put, sys_event_count,
                         sys_full_signaled, task_posts, enq_log, panic_full >>
    ELSE LET count == NextEventCount(sys_event_count)
             q == sys_queue_id(QueueState, sys_event_get, count, handler, ctx, count)
         IN  /\ sys_event_count' = count
             /\ sys_events' = q.events
             /\ sys_event_put' = q.put
             /\ sys_full_signaled' = q.full
             /\ task_posts' = q.posts
             /\ enq_log' = q.log
             /\ panic_full' = q.panic
             /\ ret' = [op |-> "sys_queue", val |-> q.ret]

SysQueue(maxCalls) ==
    /\ pc = "idle"
    /\ sys_event_count < maxCalls
    /\ \E handler \in QueueHandlers, ctx \in QueueCtxs : sys_queue(handler, ctx)
    /\ UNCHANGED << sys_event_get, sys_shutdown_requested, inv_log, pc, loc, now >>
    /\ UNCHANGED timer_vars

\* sys_task that leaves sys_event_get where it was
sys_task_no_advance ==
    LET ev2 == sys_events[sys_event_get]
    IN  /\ sys_events' = [sys_events EXCEPT ![sys_event_get].handler = NULL,
                                            ![sys_event_get].ctx = NULL]
        /\ sys_event_get' = sys_event_get
        /\ inv_log' = IF ev2.handler # NULL
                      THEN Append(inv_log, Call(ev2.handler, ev2.ctx, ev2.id))
                      ELSE inv_log

\* sys_task(e): one delivery of a posted message
sys_task ==
    LET ev2 == sys_events[sys_event_get]
    IN  /\ sys_events' = [sys_events EXCEPT ![sys_event_get].handler = NULL,
                                            ![sys_event_get].ctx = NULL]
        /\ sys_event_get' = IF sys_event_get + 1 >= SYS_NEVENTS
                            THEN 0 ELSE sys_event_get + 1
        /\ inv_log' = IF ev2.handler # NULL
                      THEN Append(inv_log, Call(ev2.handler, ev2.ctx, ev2.id))
                      ELSE inv_log

SysTask ==
    /\ pc = "idle"
    /\ task_posts > 0
    /\ task_posts' = task_posts - 1
    /\ sys_task
    /\ ret' = [op |-> "sys_task", val |-> 0]
    /\ UNCHANGED << sys_event_put, sys_event_count, sys_full_signaled,
                    sys_shutdown_requested, enq_log, panic_full, pc, loc, now >>
    /\ UNCHANGED timer_vars

\* sys_shutdown()
sys_shutdown ==
    /\ sys_shutdown_requested' = 1
    /\ sys_event_put' = 0
    /\ sys_event_get' = 0

Shutdown ==
    /\ pc = "idle"
    /\ sys_shutdown
    /\ ret' = [op |-> "sys_shutdown", val |-> 0]
    /\ UNCHANGED << sys_events, sys_event_count, sys_full_signaled, task_posts,
                    enq_log, inv_log, panic_full, pc, loc, now >>
    /\ UNCHANGED timer_vars

(* ---- software timeout engine ------------------------------------------ *)
sys_timeout_update_dt(dt, delay) ==
    IF (dt <= 0) \/ (dt > delay) THEN delay ELSE dt

FreeSlots(timeouts) == {i \in 0..(SYS_NTIMEOUTS - 1) : timeouts[i].handler = NULL}

Min(S) == CHOOSE x \in S : \A y \in S : x <= y

\* first slot whose handler is NULL, -1 when there is none
sys_timeout_new(timeouts) ==
    IF FreeSlots(timeouts) = {} THEN -1 ELSE Min(FreeSlots(timeouts))

\* the engine as sys_timeout_trig reads and writes it
EngineState ==
    [timeouts |-> sys_timeouts, dt |-> sys_timeout_dt, period |-> sys_period,
     idle |-> sys_timer_idle, armed |-> timer_armed]

\* sys_timeout_trig that never shortens the running period for a shorter delay
sys_timeout_trig_keep(e, delay, id) ==
    IF e.idle = 1
    THEN [e EXCEPT !.dt = delay, !.idle = 0,
                   !.period = delay, !.armed = TRUE]
    ELSE LET remaining == e.period
             done == Sub32(e.dt, remaining)
         IN  [e EXCEPT !.timeouts =
                           [i \in 0..(SYS_NTIMEOUTS - 1) |->
                               IF (e.timeouts[i].timeout > 0) /\ (e.timeouts[i].id # id)
                               THEN [e.timeouts[i] EXCEPT
                                        !.timeout = Sub32(e.timeouts[i].timeout, done)]
                               ELSE e.timeouts[i]],
                       !.dt = remaining,
                       !.period = remaining,
                       !.armed = TRUE]

\* sys_timeout_trig that always re-arms for the new delay
sys_timeout_trig_new_delay(e, delay, id) ==
    IF e.idle = 1
    THEN [e EXCEPT !.dt = delay, !.idle = 0,
                   !.period = delay, !.armed = TRUE]
    ELSE LET remaining == e.period
             done == Sub32(e.dt, remaining)
         IN  [e EXCEPT !.timeouts =
                           [i \in 0..(SYS_NTIMEOUTS - 1) |->
                               IF (e.timeouts[i].timeout > 0) /\ (e.timeouts[i].id # id)
                               THEN [e.timeouts[i] EXCEPT
                                        !.timeout = Sub32(e.timeouts[i].timeout, done)]
                               ELSE e.timeouts[i]],
                       !.dt = delay,
                       !.period = delay,
                       !.armed = TRUE]

sys_timeout_trig(e, delay, id) ==
    IF e.idle = 1
    THEN [e EXCEPT !.dt = delay, !.idle = 0,
                   !.period = delay, !.armed = TRUE]
    ELSE LET remaining == e.period
             done == Sub32(e.dt, remaining)
             dt == IF ULess(remaining, delay) THEN remaining ELSE delay
         IN  [e EXCEPT !.timeouts =
                           [i \in 0..(SYS_NTIMEOUTS - 1) |->
                               IF (e.timeouts[i].timeout > 0) /\ (e.timeouts[i].id # id)
                               THEN [e.timeouts[i] EXCEPT
                                        !.timeout = Sub32(e.timeouts[i].timeout, done)]
                               ELSE e.timeouts[i]],
                       !.dt = dt,
                       !.period = dt,
                       !.armed = TRUE]

\* the generation advanced by one instead of by the table size
NextTimeoutCount_by_one(count) ==
    LET c == Add32(count, 1) IN IF c < 0 THEN 0 ELSE c

\* sys_timeout_count += SYS_NTIMEOUTS; if (sys_timeout_count < 0) sys_timeout_count = 0;
NextTimeoutCount(count) ==
    LET c == Add32(count, SYS_NTIMEOUTS) IN IF c < 0 THEN 0 ELSE c

\* id stored in slot i by sys_timeout_add
TimeoutId(count, i) == count + i

\* sys_timeout_add(milliseconds, handler, ctx), run without preemption
sys_timeout_add(milliseconds, handler, ctx) ==
    LET i == sys_timeout_new(sys_timeouts)
    IN  IF sys_shutdown_requested = 1
        THEN /\ ret' = [op |-> "sys_timeout_add", val |-> -1]
             /\ UNCHANGED timer_vars
        ELSE IF i < 0
        THEN /\ ret' = [op |-> "sys_timeout_add", val |-> -1]
             /\ panic_busy' = panic_busy + 1
             /\ UNCHANGED << sys_timer_idle, sys_timeouts, sys_timeout_dt,
                             sys_timeout_count, sys_period, timer_armed,
                             added, fired, deleted >>
        ELSE LET count == NextTimeoutCount(sys_timeout_count)
                 id == TimeoutId(count, i)
                 armed == [EngineState EXCEPT
                              !.timeouts[i] = sys_event_t(handler, ctx, id, milliseconds)]
                 e == sys_timeout_trig(armed, milliseconds, id)
             IN  /\ sys_timeout_count' = count
                 /\ sys_timeouts' = e.timeouts
                 /\ sys_timeout_dt' = e.dt
                 /\ sys_period' = e.period
                 /\ sys_timer_idle' = e.idle
                 /\ timer_armed' = e.armed
                 /\ added' = added \cup {[id |-> id, slot |-> i,
                                          delay |-> milliseconds, at |-> now]}
                 /\ ret' = [op |-> "sys_timeout_add", val |-> id]
                 /\ panic_busy' = 0
                 /\ UNCHANGED << fired, deleted >>

TimeoutAdd(maxAdds, maxDelay) ==
    /\ pc = "idle"
    /\ Cardinality(added) < maxAdds
    /\ panic_busy < MaxPanics
    /\ \E ms \in 1..maxDelay, handler \in TimerHandlers, ctx \in TimerCtxs :
           sys_timeout_add(ms, handler, ctx)
    /\ UNCHANGED << sys_shutdown_requested, pc, loc, now >>
    /\ UNCHANGED queue_vars

\* the slot looked up by generation (id / 16) instead of by index (id % 16)
DelSlot_by_generation(timeouts, id) ==
    IF (id > 0) /\ ((id \div SYS_NTIMEOUTS) \in DOMAIN timeouts)
       /\ (id = timeouts[id \div SYS_NTIMEOUTS].id)
    THEN id \div SYS_NTIMEOUTS ELSE -1

\* the slot sys_timeout_del(id) clears, -1 when it clears none
DelSlot(timeouts, id) ==
    IF (id > 0) /\ (id = timeouts[id % SYS_NTIMEOUTS].id)
    THEN id % SYS_NTIMEOUTS ELSE -1

\* sys_timeout_del that also applies to the other slots the elapsed-time
\* correction of sys_timeout_trig
sys_timeout_del_corrected(id) ==
    LET i == IF (id > 0) /\ (id = sys_timeouts[id % SYS_NTIMEOUTS].id)
             THEN id % SYS_NTIMEOUTS ELSE -1
        done == Sub32(sys_timeout_dt, sys_period)
    IN  /\ sys_timeouts' =
               IF i >= 0
               THEN [j \in 0..(SYS_NTIMEOUTS - 1) |->
                        IF j = i
                        THEN [sys_timeouts[j] EXCEPT !.handler = NULL, !.id = 0]
                        ELSE IF sys_timeouts[j].timeout > 0
                        THEN [sys_timeouts[j] EXCEPT
                                 !.timeout = Sub32(sys_timeouts[j].timeout, done)]
                        ELSE sys_timeouts[j]]
               ELSE sys_timeouts
        /\ deleted' = IF (i >= 0) \/ (id \in {a.id : a \in {b \in added : b.at = now}})
                      THEN deleted \cup {[id |-> id, at |-> now, hit |-> (i >= 0)]}
                      ELSE deleted
        /\ timer_armed' = TRUE

\* ids some sys_timeout_add has returned
IssuedIds == {a.id : a \in added}

\* ids returned since the last tick
FreshIds == {a.id : a \in {b \in added : b.at = now}}

\* sys_timeout_del(id), run without preemption
sys_timeout_del(id) ==
    LET i == DelSlot(sys_timeouts, id)
    IN  /\ sys_timeouts' = IF i >= 0
                           THEN [sys_timeouts EXCEPT ![i].handler = NULL, ![i].id = 0]
                           ELSE sys_timeouts
        /\ deleted' = IF (i >= 0) \/ (id \in FreshIds)
                      THEN deleted \cup {[id |-> id, at |-> now, hit |-> (i >= 0)]}
                      ELSE deleted
        /\ timer_armed' = TRUE

\* ids handed to sys_timeout_del: every id ever returned, the same slot one
\* generation later, and ids no timer ever held
DelIds ==
    IssuedIds \cup {id + SYS_NTIMEOUTS : id \in IssuedIds} \cup {0, 1}

TimeoutDelCall(id) ==
    /\ pc = "idle"
    /\ sys_timeout_del(id)
    /\ ret' = [op |-> "sys_timeout_del", val |-> 0]
    /\ UNCHANGED << sys_timer_idle, sys_timeout_dt, sys_timeout_count, sys_period,
                    added, fired, panic_busy, sys_shutdown_requested, pc, loc, now >>
    /\ UNCHANGED queue_vars

TimeoutDel == \E id \in DelIds : TimeoutDelCall(id)

\* one iteration of the loop of sys_timer_callback over slot i
sweep_slot(acc, i, dt) ==
    LET ev == acc.timeouts[i]
        timeout == Sub32(ev.timeout, dt)
    IN  IF ev.handler = NULL THEN acc
        ELSE IF timeout <= 0
        THEN LET q == sys_queue_id(acc.q, acc.get, acc.count, ev.handler, ev.ctx, ev.id)
             IN  [acc EXCEPT
                     !.q = q,
                     !.timeouts[i] = [ev EXCEPT !.timeout = timeout,
                                                !.handler = NULL, !.id = 0],
                     !.fired = Append(acc.fired,
                                      [id |-> ev.id, slot |-> i, at |-> acc.now,
                                       queued |-> (q.ret # -1)])]
        ELSE [acc EXCEPT !.timeouts[i].timeout = timeout,
                         !.dt = sys_timeout_update_dt(acc.dt, timeout)]

RECURSIVE sweep(_, _, _)
sweep(acc, i, dt) ==
    IF i >= SYS_NTIMEOUTS THEN acc ELSE sweep(sweep_slot(acc, i, dt), i + 1, dt)

\* sys_timer_callback(arg) at tick t
sys_timer_callback(t) ==
    LET period == Sub32(sys_period, SYS_TIMER_PERIOD)
    IN  IF period # 0
        THEN /\ sys_period' = period
             /\ UNCHANGED << sys_events, sys_event_put, sys_full_signaled, task_posts,
                             enq_log, panic_full, sys_timeouts, sys_timeout_dt, sys_timer_idle,
                             timer_armed, fired >>
        ELSE LET acc == sweep([timeouts |-> sys_timeouts, q |-> QueueState, dt |-> 0,
                               fired |-> fired, get |-> sys_event_get,
                               count |-> sys_event_count, now |-> t],
                              0, sys_timeout_dt)
             IN  /\ sys_events' = acc.q.events
                 /\ sys_event_put' = acc.q.put
                 /\ sys_full_signaled' = acc.q.full
                 /\ task_posts' = acc.q.posts
                 /\ enq_log' = acc.q.log
                 /\ panic_full' = acc.q.panic
                 /\ sys_timeouts' = acc.timeouts
                 /\ fired' = acc.fired
                 /\ sys_timeout_dt' = acc.dt
                 /\ IF acc.dt > 0
                    THEN /\ sys_period' = acc.dt
                         /\ timer_armed' = TRUE
                         /\ UNCHANGED sys_timer_idle
                    ELSE /\ sys_period' = period
                         /\ timer_armed' = FALSE
                         /\ sys_timer_idle' = 1

\* SYS_TIMER_PERIOD elapses: the callback runs if the os_timer is armed
Tick(maxTicks) ==
    /\ now < maxTicks
    /\ now' = now + 1
    /\ IF timer_armed
       THEN sys_timer_callback(now + 1)
       ELSE UNCHANGED << sys_events, sys_event_put, sys_full_signaled, task_posts,
                         enq_log, panic_full, sys_timeouts, sys_timeout_dt, sys_timer_idle,
                         timer_armed, fired, sys_period >>
    /\ UNCHANGED << sys_event_get, sys_event_count, sys_shutdown_requested,
                    sys_timeout_count, inv_log, added, deleted, panic_busy,
                    pc, loc, ret >>

(* ---- sys_queue, statement by statement -------------------------------- *)
\* what a statement of sys_queue / sys_queue_id leaves alone besides its own writes
IrqFrame ==
    /\ UNCHANGED << sys_event_get, sys_shutdown_requested, inv_log, now >>
    /\ UNCHANGED timer_vars

\* normal context enters sys_queue(handler, ctx)
IrqCall ==
    /\ pc = "idle"
    /\ sys_event_count < MaxQueueCalls
    /\ \E handler \in QueueHandlers, ctx \in QueueCtxs :
           loc' = [handler |-> handler, ctx |-> ctx, id |-> 0, ev |-> 0]
    /\ pc' = "L109"
    /\ UNCHANGED << sys_events, sys_event_put, sys_event_count, sys_full_signaled,
                    task_posts, enq_log, panic_full, ret >>
    /\ IrqFrame

\* if (sys_shutdown_requested) return -1;
IrqL109 ==
    /\ pc = "L109"
    /\ IF sys_shutdown_requested = 1
       THEN /\ pc' = "idle"
            /\ ret' = [op |-> "sys_queue", val |-> -1]
       ELSE /\ pc' = "L113"
            /\ UNCHANGED ret
    /\ UNCHANGED << sys_events, sys_event_put, sys_event_count, sys_full_signaled,
                    task_posts, enq_log, panic_full, loc >>
    /\ IrqFrame

\* sys_event_count++; if (sys_event_count < 0) ...; sys_queue_id(handler, ctx, sys_event_count)
IrqL113 ==
    /\ pc = "L113"
    /\ sys_event_count' = NextEventCount(sys_event_count)
    /\ loc' = [loc EXCEPT !.id = NextEventCount(sys_event_count)]
    /\ pc' = "L60"
    /\ UNCHANGED << sys_events, sys_event_put, sys_full_signaled, task_posts,
                    enq_log, panic_full, ret >>
    /\ IrqFrame

\* if (sys_queue_len() >= (SYS_NEVENTS-1)) { ...; sys_full_signaled = 1; return -1; }
IrqL60 ==
    /\ pc = "L60"
    /\ IF sys_queue_len(sys_event_put, sys_event_get) >= SYS_NEVENTS - 1
       THEN /\ panic_full' = IF sys_full_signaled = 0
                              THEN panic_full + 1 ELSE panic_full
            /\ sys_full_signaled' = 1
            /\ pc' = "idle"
            /\ ret' = [op |-> "sys_queue", val |-> -1]
       ELSE /\ pc' = "L67"
            /\ UNCHANGED << sys_full_signaled, panic_full, ret >>
    /\ UNCHANGED << sys_events, sys_event_put, sys_event_count, task_posts,
                    enq_log, loc >>
    /\ IrqFrame

\* sys_full_signaled = 0;
IrqL67 ==
    /\ pc = "L67"
    /\ sys_full_signaled' = 0
    /\ panic_full' = 0
    /\ pc' = "L70"
    /\ UNCHANGED << sys_events, sys_event_put, sys_event_count, task_posts,
                    enq_log, loc, ret >>
    /\ IrqFrame

\* ev = &sys_events[sys_event_put];
IrqL70 ==
    /\ pc = "L70"
    /\ loc' = [loc EXCEPT !.ev = sys_event_put]
    /\ pc' = "L71"
    /\ UNCHANGED << sys_events, sys_event_put, sys_event_count, sys_full_signaled,
                    task_posts, enq_log, panic_full, ret >>
    /\ IrqFrame

\* ev->handler = handler; ev->ctx = ctx; ev->id = id; ev->timeout = 0;  (one each)
IrqStore(at, field, value, next) ==
    /\ pc = at
    /\ sys_events' = [sys_events EXCEPT ![loc.ev][field] = value]
    /\ pc' = next
    /\ UNCHANGED << sys_event_put, sys_event_count, sys_full_signaled, task_posts,
                    enq_log, panic_full, loc, ret >>
    /\ IrqFrame

IrqL71 == IrqStore("L71", "handler", loc.handler, "L72")
IrqL72 == IrqStore("L72", "ctx", loc.ctx, "L73")
IrqL73 == IrqStore("L73", "id", loc.id, "L74")
IrqL74 == IrqStore("L74", "timeout", 0, "L76")

\* sys_event_put++;
IrqL76 ==
    /\ pc = "L76"
    /\ sys_event_put' = sys_event_put + 1
    /\ pc' = "L77"
    /\ UNCHANGED << sys_events, sys_event_count, sys_full_signaled, task_posts,
                    enq_log, panic_full, loc, ret >>
    /\ IrqFrame

\* if (sys_event_put >= SYS_NEVENTS) sys_event_put = 0;
IrqL77 ==
    /\ pc = "L77"
    /\ sys_event_put' = IF sys_event_put >= SYS_NEVENTS THEN 0 ELSE sys_event_put
    /\ pc' = "L81"
    /\ UNCHANGED << sys_events, sys_event_count, sys_full_signaled, task_posts,
                    enq_log, panic_full, loc, ret >>
    /\ IrqFrame

\* system_os_post(USER_TASK_PRIO_2, 0, 0);
IrqL81 ==
    /\ pc = "L81"
    /\ task_posts' = system_os_post(task_posts)
    /\ pc' = "L83"
    /\ UNCHANGED << sys_events, sys_event_put, sys_event_count, sys_full_signaled,
                    enq_log, panic_full, loc, ret >>
    /\ IrqFrame

\* return sys_event_count;
IrqL83 ==
    /\ pc = "L83"
    /\ ret' = [op |-> "sys_queue", val |-> sys_event_count]
    /\ enq_log' = Append(enq_log, Call(loc.handler, loc.ctx, loc.id))
    /\ pc' = "idle"
    /\ UNCHANGED << sys_events, sys_event_put, sys_event_count, sys_full_signaled,
                    task_posts, panic_full, loc >>
    /\ IrqFrame

(* ---- sys_timeout_add and sys_timeout_del, statement by statement ------- *)
\* what a statement of the two calls leaves alone outside the timeout engine
TimerFrame ==
    /\ UNCHANGED << sys_shutdown_requested, now >>
    /\ UNCHANGED queue_vars

\* a statement at `at` that leaves the engine as e and the locals as l
TimerStep(at, next, e, l) ==
    /\ pc = at
    /\ pc' = next
    /\ loc' = l
    /\ sys_timeouts' = e.timeouts
    /\ sys_timeout_dt' = e.dt
    /\ sys_period' = e.period
    /\ sys_timer_idle' = e.idle
    /\ timer_armed' = e.armed
    /\ UNCHANGED << sys_timeout_count, added, fired, deleted, panic_busy, ret >>
    /\ TimerFrame

\* normal context enters sys_timeout_add(milliseconds, handler, ctx):
\* int i = sys_timeout_new();
AddCall ==
    /\ pc = "idle"
    /\ Cardinality(added) < MaxAdds
    /\ panic_busy < MaxPanics
    /\ \E ms \in 1..MaxDelay, handler \in TimerHandlers, ctx \in TimerCtxs :
           loc' = [handler |-> handler, ctx |-> ctx, ms |-> ms,
                   i |-> sys_timeout_new(sys_timeouts),
                   id |-> 0, remaining |-> 0, done |-> 0]
    /\ pc' = "L189"
    /\ UNCHANGED ret
    /\ UNCHANGED timer_vars
    /\ TimerFrame

\* if (sys_shutdown_requested) return -1;
AddL189 ==
    /\ pc = "L189"
    /\ IF sys_shutdown_requested = 1
       THEN /\ pc' = "idle"
            /\ ret' = [op |-> "sys_timeout_add", val |-> -1]
       ELSE /\ pc' = "L192"
            /\ UNCHANGED ret
    /\ UNCHANGED loc
    /\ UNCHANGED timer_vars
    /\ TimerFrame

\* if (i < 0) { cprintf(... "PANIC: All timeout slots are busy\n"); return -1; }
AddL192 ==
    /\ pc = "L192"
    /\ IF loc.i < 0
       THEN /\ pc' = "idle"
            /\ panic_busy' = panic_busy + 1
            /\ ret' = [op |-> "sys_timeout_add", val |-> -1]
       ELSE /\ pc' = "L198"
            /\ UNCHANGED << panic_busy, ret >>
    /\ UNCHANGED << sys_timer_idle, sys_timeouts, sys_timeout_dt, sys_timeout_count,
                    sys_period, timer_armed, added, fired, deleted, loc >>
    /\ TimerFrame

\* sys_timeout_count += SYS_NTIMEOUTS; if (sys_timeout_count < 0) sys_timeout_count = 0;
AddL198 ==
    /\ pc = "L198"
    /\ sys_timeout_count' = NextTimeoutCount(sys_timeout_count)
    /\ pc' = "L203"
    /\ UNCHANGED << sys_timer_idle, sys_timeouts, sys_timeout_dt, sys_period,
                    timer_armed, added, fired, deleted, panic_busy, loc, ret >>
    /\ TimerFrame

\* ev = &sys_timeouts[i]; ev->handler = handler;
AddL203 ==
    TimerStep("L203", "L204",
              [EngineState EXCEPT !.timeouts[loc.i].handler = loc.handler], loc)

\* ev->ctx = ctx;
AddL204 ==
    TimerStep("L204", "L205",
              [EngineState EXCEPT !.timeouts[loc.i].ctx = loc.ctx], loc)

\* ev->id = sys_timeout_count + i;
AddL205 ==
    TimerStep("L205", "L206",
              [EngineState EXCEPT
                  !.timeouts[loc.i].id = TimeoutId(sys_timeout_count, loc.i)], loc)

\* ev->timeout = milliseconds;
AddL206 ==
    TimerStep("L206", "L208",
              [EngineState EXCEPT !.timeouts[loc.i].timeout = loc.ms], loc)

\* sys_timeout_trig(milliseconds, ev->id): the id argument is read from the slot
AddL208 ==
    TimerStep("L208", "L153", EngineState,
              [loc EXCEPT !.id = sys_timeouts[loc.i].id])

\* if (sys_timer_idle) ... else ...
AddL153 ==
    TimerStep("L153", IF sys_timer_idle = 1 THEN "L154" ELSE "L158", EngineState, loc)

\* sys_timeout_dt = delay;
AddL154 ==
    TimerStep("L154", "L155", [EngineState EXCEPT !.dt = loc.ms], loc)

\* sys_timer_idle = 0;
AddL155 ==
    TimerStep("L155", "L179", [EngineState EXCEPT !.idle = 0], loc)

\* os_timer_disarm(&sys_timer);
AddL158 ==
    TimerStep("L158", "L159", [EngineState EXCEPT !.armed = FALSE], loc)

\* uint32_t remaining = sys_period; uint32_t done = sys_timeout_dt - remaining;
AddL159 ==
    TimerStep("L159", "L163", EngineState,
              [loc EXCEPT !.remaining = sys_period,
                          !.done = Sub32(sys_timeout_dt, sys_period)])

\* for (i...) if ((ev->timeout > 0) && (ev->id != id)) ev->timeout -= done;
AddL163 ==
    TimerStep("L163", "L170",
              [EngineState EXCEPT !.timeouts =
                  [i \in 0..(SYS_NTIMEOUTS - 1) |->
                      IF (sys_timeouts[i].timeout > 0) /\ (sys_timeouts[i].id # loc.id)
                      THEN [sys_timeouts[i] EXCEPT
                               !.timeout = Sub32(sys_timeouts[i].timeout, loc.done)]
                      ELSE sys_timeouts[i]]],
              loc)

\* if (remaining < delay) sys_timeout_dt = remaining; else sys_timeout_dt = delay;
AddL170 ==
    TimerStep("L170", "L179",
              [EngineState EXCEPT
                  !.dt = IF ULess(loc.remaining, loc.ms) THEN loc.remaining ELSE loc.ms],
              loc)

\* sys_period = sys_timeout_dt;
AddL179 ==
    TimerStep("L179", "L180", [EngineState EXCEPT !.period = sys_timeout_dt], loc)

\* os_timer_arm(&sys_timer, SYS_TIMER_PERIOD, 1);
AddL180 ==
    TimerStep("L180", "L210", [EngineState EXCEPT !.armed = TRUE], loc)

\* return ev->id;
AddL210 ==
    /\ pc = "L210"
    /\ pc' = "idle"
    /\ ret' = [op |-> "sys_timeout_add", val |-> sys_timeouts[loc.i].id]
    /\ added' = added \cup {[id |-> sys_timeouts[loc.i].id, slot |-> loc.i,
                             delay |-> loc.ms, at |-> now]}
    /\ panic_busy' = 0
    /\ UNCHANGED << sys_timer_idle, sys_timeouts, sys_timeout_dt, sys_timeout_count,
                    sys_period, timer_armed, fired, deleted, loc >>
    /\ TimerFrame

\* normal context enters sys_timeout_del(id)
DelCall ==
    /\ pc = "idle"
    /\ \E id \in DelIds : loc' = [id |-> id, i |-> id % SYS_NTIMEOUTS]
    /\ pc' = "L216"
    /\ UNCHANGED ret
    /\ UNCHANGED timer_vars
    /\ TimerFrame

\* os_timer_disarm(&sys_timer);
DelL216 ==
    TimerStep("L216", "L217", [EngineState EXCEPT !.armed = FALSE], loc)

\* if (id > 0) { i = id % SYS_NTIMEOUTS; ev = &sys_timeouts[i]; if (id == ev->id) ...
DelL217 ==
    TimerStep("L217",
              IF (loc.id > 0) /\ (loc.id = sys_timeouts[loc.i].id) THEN "L223" ELSE "L227",
              EngineState, loc)

\* ev->handler = NULL;
DelL223 ==
    /\ pc = "L223"
    /\ pc' = "L224"
    /\ sys_timeouts' = [sys_timeouts EXCEPT ![loc.i].handler = NULL]
    /\ deleted' = deleted \cup {[id |-> loc.id, at |-> now, hit |-> TRUE]}
    /\ UNCHANGED << sys_timer_idle, sys_timeout_dt, sys_timeout_count, sys_period,
                    timer_armed, added, fired, panic_busy, loc, ret >>
    /\ TimerFrame

\* ev->id = 0;
DelL224 ==
    TimerStep("L224", "L227", [EngineState EXCEPT !.timeouts[loc.i].id = 0], loc)

\* os_timer_arm(&sys_timer, SYS_TIMER_PERIOD, 1); and return
DelL227 ==
    /\ pc = "L227"
    /\ pc' = "idle"
    /\ timer_armed' = TRUE
    /\ ret' = [op |-> "sys_timeout_del", val |-> 0]
    /\ UNCHANGED << sys_timer_idle, sys_timeouts, sys_timeout_dt, sys_timeout_count,
                    sys_period, added, fired, deleted, panic_busy, loc >>
    /\ TimerFrame

(* ---- sys_init --------------------------------------------------------- *)
NoLocals == [handler |-> NULL, ctx |-> NULL, id |-> 0, ev |-> 0]

Init ==
    /\ sys_events = [i \in 0..(SYS_NEVENTS - 1) |-> sys_event_t(NULL, NULL, 0, 0)]
    /\ sys_event_put = 0
    /\ sys_event_get = 0
    /\ sys_event_count = 0
    /\ sys_full_signaled = 0
    /\ sys_shutdown_requested = 0
    /\ sys_timer_idle = 1
    /\ sys_timeouts = [i \in 0..(SYS_NTIMEOUTS - 1) |-> sys_event_t(NULL, NULL, 0, 0)]
    /\ sys_timeout_dt = 0
    /\ sys_timeout_count = 0
    /\ sys_period = 0
    /\ timer_armed = FALSE
    /\ task_posts = 0
    /\ pc = "idle"
    /\ loc = NoLocals
    /\ ret = [op |-> "sys_init", val |-> 0]
    /\ now = 0
    /\ enq_log = << >>
    /\ inv_log = << >>
    /\ added = {}
    /\ fired = << >>
    /\ deleted = {}
    /\ panic_full = 0
    /\ panic_busy = 0

(* ---- specifications --------------------------------------------------- *)
Next ==
    \/ SysTask
    \/ TimeoutAdd(MaxAdds, MaxDelay)
    \/ TimeoutDel
    \/ Tick(MaxTicks)

Spec == Init /\ [][Next]_vars

\* one timeout of one tick period, armed while no other was
QueueTimeout ==
    /\ added = {}
    /\ TimeoutAdd(MaxAdds, SYS_TIMER_PERIOD)

NextQueue ==
    \/ SysQueue(SYS_NEVENTS + ExtraCalls)
    \/ SysTask
    \/ QueueTimeout
    \/ Tick(MaxTicksQueue)

SpecQueue == Init /\ [][NextQueue]_vars

\* no sys_shutdown; the host delivers every posted message in the end
NextFifo ==
    \/ SysQueue(MaxQueueCalls)
    \/ SysTask
    \/ TimeoutAdd(MaxAdds, SYS_TIMER_PERIOD)
    \/ Tick(MaxTicksQueue)

FairFifo == Init /\ [][NextFifo]_vars /\ WF_vars(SysTask)

\* sys_queue in normal context, the tick callback between any two statements
NextIrq ==
    \/ IrqCall
    \/ IrqL109
    \/ IrqL113
    \/ IrqL60
    \/ IrqL67
    \/ IrqL70
    \/ IrqL71
    \/ IrqL72
    \/ IrqL73
    \/ IrqL74
    \/ IrqL76
    \/ IrqL77
    \/ IrqL81
    \/ IrqL83
    \/ SysTask
    \/ TimeoutAdd(MaxAdds, SYS_TIMER_PERIOD)
    \/ Tick(MaxTicksQueue)

SpecIrq == Init /\ [][NextIrq]_vars

NextDown ==
    \/ SysQueue(MaxQueueCalls)
    \/ SysTask
    \/ Shutdown
    \/ TimeoutAdd(MaxAdds, SYS_TIMER_PERIOD)
    \/ Tick(MaxTicksQueue)

SpecDown == Init /\ [][NextDown]_vars

\* sys_timeout_add and sys_timeout_del in normal context, the tick callback
\* between any two statements
NextTimerIrq ==
    \/ AddCall
    \/ AddL189
    \/ AddL192
    \/ AddL198
    \/ AddL203
    \/ AddL204
    \/ AddL205
    \/ AddL206
    \/ AddL208
    \/ AddL153
    \/ AddL154
    \/ AddL155
    \/ AddL158
    \/ AddL159
    \/ AddL163
    \/ AddL170
    \/ AddL179
    \/ AddL180
    \/ AddL210
    \/ DelCall
    \/ DelL216
    \/ DelL217
    \/ DelL223
    \/ DelL224
    \/ DelL227
    \/ Tick(MaxTicksQueue)

SpecTimerIrq == Init /\ [][NextTimerIrq]_vars

\* enough sys_timeout_add calls to occupy the SYS_NTIMEOUTS slots
NextSlots ==
    \/ TimeoutAdd(SYS_NTIMEOUTS + ExtraCalls, SYS_TIMER_PERIOD)
    \/ SysTask
    \/ Tick(MaxTicksQueue)

SpecSlots == Init /\ [][NextSlots]_vars

(* ---- what the logs say ------------------------------------------------- *)
\* the timer record of a returned id
Timer(id) == CHOOSE a \in added : a.id = id

FiredIds == {fired[k].id : k \in DOMAIN fired}

\* ids whose expiry wrote an entry into the deferred queue
QueuedIds == {fired[k].id : k \in {n \in DOMAIN fired : fired[n].queued}}

\* ids cleared from their slot by sys_timeout_del
ClearedIds == {d.id : d \in {x \in deleted : x.hit}}

\* the slot of timer a still holds it
Live(a) == (sys_timeouts[a.slot].id = a.id) /\ (sys_timeouts[a.slot].handler # NULL)

\* entries of enq_log written by the tick-sweep
TimerEntries == {k \in DOMAIN enq_log : enq_log[k].handler \in TimerHandlers}

\* entries of enq_log and inv_log that carry timer id
Pushed(id) == \E k \in TimerEntries : enq_log[k].id = id
Invoked(id) ==
    \E k \in DOMAIN inv_log :
        (inv_log[k].handler \in TimerHandlers) /\ (inv_log[k].id = id)

(* ---- C4 ---------------------------------------------------------------- *)
\* C4: a timer armed with delay >= 1 and not deleted is pushed into the
\* deferred queue no earlier than `delay` ticks after its add and no later
\* than one tick after that, whatever adds, deletes and ticks interleave.
C4_FiresOnTime ==
    \A a \in added :
        (a.id \notin ClearedIds) =>
            /\ \A k \in DOMAIN fired :
                   (fired[k].id = a.id) =>
                       /\ fired[k].at >= a.at + a.delay
                       /\ fired[k].at <= a.at + a.delay + SYS_TIMER_PERIOD
            /\ (now >= a.at + a.delay + SYS_TIMER_PERIOD) => (a.id \in QueuedIds)

\* C4, supporting fact for Spec (the queue never fills there): every expiry
\* is on the tick at + delay exactly, so a later add never shifts an armed timer.
C4_ExactExpiry ==
    \A a \in added :
        /\ \A k \in DOMAIN fired : (fired[k].id = a.id) => (fired[k].at = a.at + a.delay)
        /\ ((a.id \notin ClearedIds) /\ (now >= a.at + a.delay)) => (a.id \in QueuedIds)

(* ---- C5 ---------------------------------------------------------------- *)
\* C5: timers added with no tick in between are pushed into the deferred
\* queue in non-decreasing order of delay; equal delays expire on the same
\* sweep and are pushed in ascending slot order.
C5_DelayOrder ==
    \A i \in TimerEntries, j \in TimerEntries :
        LET a == Timer(enq_log[i].id)
            b == Timer(enq_log[j].id)
        IN  ((i < j) /\ (a.at = b.at)) =>
                /\ a.delay <= b.delay
                /\ (a.delay = b.delay) =>
                       \E m \in DOMAIN fired, n \in DOMAIN fired :
                           /\ fired[m].id = a.id
                           /\ fired[n].id = b.id
                           /\ fired[m].at = fired[n].at
                           /\ fired[m].slot < fired[n].slot

\* C5 witness: two timers of one batch, the later-added with the shorter
\* delay, both pushed.
C5_Witness ==
    \E i \in TimerEntries, j \in TimerEntries :
        LET a == Timer(enq_log[i].id)
            b == Timer(enq_log[j].id)
        IN  (i < j) /\ (a.at = b.at) /\ (a.delay < b.delay) /\ (a.slot > b.slot)

(* ---- C6 ---------------------------------------------------------------- *)
\* C6: a timer deleted with the id its add returned, before any tick, is
\* never pushed into the deferred queue and never invoked.
C6_DeletedNeverFires ==
    \A a \in added :
        (\E d \in deleted : (d.id = a.id) /\ (d.at = a.at)) =>
            /\ a.id \notin FiredIds
            /\ ~Pushed(a.id)
            /\ ~Invoked(a.id)
            /\ ~Live(a)

\* C6 witness: such a timer, its delay elapsed, another timer of the same
\* slot fired since.
C6_Witness ==
    \E a \in added, b \in added :
        /\ \E d \in deleted : (d.id = a.id) /\ (d.at = a.at)
        /\ now >= a.at + a.delay
        /\ b.slot = a.slot
        /\ b.id # a.id
        /\ b.id \in QueuedIds

(* ---- C7 ---------------------------------------------------------------- *)
\* C7: sys_timeout_del with an id that does not match the slot at id mod 16
\* changes no slot, no engine variable and not the armed state of the tick.
C7_StaleDelIsNoop ==
    [][\A id \in DelIds :
          ((DelSlot(sys_timeouts, id) = -1) /\ TimeoutDelCall(id)) =>
              UNCHANGED << sys_timeouts, sys_timeout_dt, sys_period,
                           sys_timer_idle, timer_armed >>]_vars

(* ---- C10 --------------------------------------------------------------- *)
\* an id whose timer has fired or been deleted
Dead(id) == (id \in IssuedIds) /\ ((id \in FiredIds) \/ (id \in ClearedIds))

\* C10: every id returned by sys_timeout_add is positive, names its slot by
\* id mod 16 and was returned once only; hence a timer leaves its slot only
\* by expiring or by a sys_timeout_del with its own id, never by a delete
\* with the id of an earlier timer of the slot.
C10_SlotReuseSafe ==
    \A a \in added :
        /\ a.id > 0
        /\ a.id % SYS_NTIMEOUTS = a.slot
        /\ \A b \in added : (b.id = a.id) => (b = a)
        /\ Live(a) \/ (a.id \in FiredIds) \/ (a.id \in ClearedIds)

\* C10 witness: a slot armed a second time while the id of its first timer,
\* dead, is still at hand.
C10_Witness ==
    \E a \in added, b \in added :
        /\ a.slot = b.slot
        /\ a.id # b.id
        /\ Dead(a.id)
        /\ Live(b)

(* ---- C11 --------------------------------------------------------------- *)
\* statements of sys_timeout_add and sys_timeout_del that write the slot
\* table or sys_timeout_dt / sys_period / sys_timer_idle
WritePcs == {"L203", "L204", "L205", "L206", "L154", "L155", "L163", "L170",
             "L179", "L223", "L224"}

\* positions after the first such write of a call and before its re-arm
BracketPcs == {"L204", "L205", "L206", "L208", "L153", "L154", "L155", "L158",
               "L159", "L163", "L170", "L179", "L180", "L224", "L227"}

\* C11: every write sys_timeout_add and sys_timeout_del make to the slot
\* table and to the engine state happens with the tick disarmed, the tick
\* stays disarmed from the first such write to the re-arm, and the sweep
\* never fires a half-written slot (handler set, id still 0).
C11_WritesBracketed ==
    /\ (pc \in WritePcs) => ~timer_armed
    /\ (pc \in BracketPcs) => ~timer_armed
    /\ \A k \in DOMAIN fired : fired[k].id > 0


(* ---- C12 --------------------------------------------------------------- *)
\* C12: a sys_timeout_del that matches a slot clears that slot and nothing
\* else: sys_timeout_dt, sys_period, sys_timer_idle, the armed tick and every
\* other slot are as before; and once a timer has been deleted, every other
\* timer still expires on the tick of its add plus its delay, not earlier and
\* not later.
C12_DelChangesOneSlot ==
    [][/\ \A id \in DelIds :
              ((DelSlot(sys_timeouts, id) >= 0) /\ TimeoutDelCall(id)) =>
                  /\ UNCHANGED << sys_timeout_dt, sys_period, sys_timer_idle,
                                  timer_armed >>
                  /\ \A j \in 0..(SYS_NTIMEOUTS - 1) :
                         IF j = DelSlot(sys_timeouts, id)
                         THEN /\ sys_timeouts'[j].handler = NULL
                              /\ sys_timeouts'[j].id = 0
                         ELSE sys_timeouts'[j] = sys_timeouts[j]
       /\ (ClearedIds # {}) =>
              /\ \A k \in DOMAIN fired' :
                     (k > Len(fired)) =>
                         fired'[k].at = Timer(fired'[k].id).at + Timer(fired'[k].id).delay
              /\ \A a \in added :
                     ((now' >= a.at + a.delay) /\ (a.id \notin ClearedIds)) =>
                         \E k \in DOMAIN fired' : fired'[k].id = a.id
      ]_vars

\* C12 witness: the timer the tick was armed for was deleted while a longer
\* one was running, and the longer one has been pushed since.
C12_Witness ==
    \E a \in added, b \in added, d \in deleted :
        /\ d.hit
        /\ d.id = a.id
        /\ a.delay < b.delay
        /\ b.at <= d.at
        /\ d.at < b.at + b.delay
        /\ b.id \in QueuedIds

(* ---- C13 --------------------------------------------------------------- *)
\* slots that hold a timer
ActiveSlots == {i \in 0..(SYS_NTIMEOUTS - 1) : sys_timeouts[i].handler # NULL}

\* C13: whenever sys_timer_idle is set, no slot holds a timer and the tick
\* is disarmed.
C13_IdleMeansQuiet ==
    (sys_timer_idle = 1) => ((ActiveSlots = {}) /\ ~timer_armed)

(* ---- C19 --------------------------------------------------------------- *)
\* C19: whenever the tick is armed, 1 <= sys_period <= sys_timeout_dt, so
\* the decrement of the callback never wraps sys_period below 0.
C19_CountdownInRange ==
    timer_armed => ((sys_period >= 1) /\ (sys_period <= sys_timeout_dt))

(* ---- C14 --------------------------------------------------------------- *)
\* slots of a table that hold a timer, and the smallest timeout among them
Active(timeouts) == {i \in 0..(SYS_NTIMEOUTS - 1) : timeouts[i].handler # NULL}
SmallestRemaining(timeouts) == Min({timeouts[i].timeout : i \in Active(timeouts)})

\* C14 as stated: whenever the engine is busy and a slot is active,
\* sys_timeout_dt is the smallest timeout among the active slots.
C14_ArmedForSmallest ==
    ((sys_timer_idle = 0) /\ (ActiveSlots # {})) =>
        (sys_timeout_dt = SmallestRemaining(sys_timeouts))

\* the tick callback of this step runs the sweep
SweepStep == (now' = now + 1) /\ timer_armed /\ (sys_period = SYS_TIMER_PERIOD)

\* this step is a sys_timeout_add that armed a slot
AddStep == (ret'.op = "sys_timeout_add") /\ (added' # added)

\* C14 amended: while the engine is busy sys_timeout_dt is at least 1 and
\* never larger than the smallest timeout among the active slots; it equals
\* that smallest timeout after each sweep that leaves a slot active and after
\* each sys_timeout_add made when it was equal (or the engine idle) before.
\* sys_timeout_del does not recompute it.
C14_ArmedForAtMostSmallest ==
    [][/\ (sys_timer_idle' = 0) =>
              /\ sys_timeout_dt' >= 1
              /\ (Active(sys_timeouts') # {}) =>
                     (sys_timeout_dt' <= SmallestRemaining(sys_timeouts'))
       /\ (SweepStep /\ (Active(sys_timeouts') # {})) =>
              /\ sys_timer_idle' = 0
              /\ timer_armed'
              /\ sys_timeout_dt' = SmallestRemaining(sys_timeouts')
       /\ (AddStep /\ ((sys_timer_idle = 1) \/ ((ActiveSlots # {}) /\ C14_ArmedForSmallest))) =>
              (sys_timeout_dt' = SmallestRemaining(sys_timeouts'))
      ]_vars

\* C14 witness: the timer the tick was armed for has just been deleted and
\* sys_timeout_dt is smaller than every timeout still active.
C14_Witness ==
    /\ ret.op = "sys_timeout_del"
    /\ sys_timer_idle = 0
    /\ ActiveSlots # {}
    /\ sys_timeout_dt < SmallestRemaining(sys_timeouts)

(* ---- C15 --------------------------------------------------------------- *)
\* C15: sys_task run with no entry pending (write index = read index) leaves
\* the read index and the slots as they were and invokes no handler; run with
\* an entry pending it clears that slot, advances the read index by one and
\* leaves one entry less between the indices.
C15_PopsOnlyIfPending ==
    [][SysTask =>
          IF sys_event_put = sys_event_get
          THEN UNCHANGED << sys_event_get, sys_events, inv_log >>
          ELSE /\ sys_events'[sys_event_get].handler = NULL
               /\ sys_event_get' = (sys_event_get + 1) % SYS_NEVENTS
               /\ sys_queue_len(sys_event_put', sys_event_get')
                      = sys_queue_len(sys_event_put, sys_event_get) - 1
      ]_vars

(* ---- C20 --------------------------------------------------------------- *)
\* C20: once sys_shutdown has been called no entry is written into the
\* deferred queue and no handler is invoked.
C20_QuietAfterShutdown ==
    [][(sys_shutdown_requested = 1) =>
          UNCHANGED << enq_log, inv_log, sys_events >>
      ]_vars

(* ---- C16 --------------------------------------------------------------- *)
\* C16: a slot that holds a timer is freed only by a sweep that wrote its
\* handler, ctx and id into the deferred queue or by sys_timeout_del with its
\* id; a free slot is armed only by sys_timeout_add; no timer id is written
\* into the deferred queue twice.
C16_SlotStateMachine ==
    [][/\ \A i \in 0..(SYS_NTIMEOUTS - 1) :
              /\ ((sys_timeouts[i].handler # NULL) /\ (sys_timeouts'[i].handler = NULL)) =>
                     \/ /\ now' = now + 1
                        /\ \E k \in DOMAIN enq_log' :
                               /\ k > Len(enq_log)
                               /\ enq_log'[k] = Call(sys_timeouts[i].handler,
                                                     sys_timeouts[i].ctx,
                                                     sys_timeouts[i].id)
                     \/ /\ ret'.op = "sys_timeout_del"
                        /\ \E d \in deleted' : d.hit /\ (d.id = sys_timeouts[i].id)
              /\ ((sys_timeouts[i].handler = NULL) /\ (sys_timeouts'[i].handler # NULL)) =>
                     /\ ret'.op = "sys_timeout_add"
                     /\ ret'.val = sys_timeouts'[i].id
       /\ \A j \in DOMAIN enq_log', k \in DOMAIN enq_log' :
              ((enq_log'[j].handler \in TimerHandlers) /\ (enq_log'[j] = enq_log'[k])) =>
                  (j = k)
      ]_vars

(* ---- C18 --------------------------------------------------------------- *)
\* C18: the queue-full line is printed at most once between two accepted
\* enqueues and the slots-busy line at most once between two accepted
\* sys_timeout_add calls.
C18_WarningsEdgeTriggered ==
    /\ panic_full <= 1
    /\ panic_busy <= 1

(* ---- C2 ---------------------------------------------------------------- *)
\* entries enqueued and not yet drained
Pending == Len(enq_log) - Len(inv_log)

FillCall == SysQueue(SYS_NEVENTS + ExtraCalls)

\* C2 as stated: sys_queue with 31 entries pending returns -1 and leaves the
\* write index, the read index, the 32 slots and the id counter as they were.
C2_FullRejectNoMutation ==
    [][(FillCall /\ (sys_shutdown_requested = 0) /\ (Pending = SYS_NEVENTS - 1)) =>
          /\ ret'.val = -1
          /\ UNCHANGED << sys_event_put, sys_event_get, sys_events, sys_event_count >>
      ]_vars

\* C2 amended: sys_queue with 31 entries pending returns -1 and leaves the
\* write index, the read index and the 32 slots as they were; the id counter
\* is advanced before the capacity test and the full latch is set.
C2_FullRejectKeepsQueue ==
    [][(FillCall /\ (sys_shutdown_requested = 0) /\ (Pending = SYS_NEVENTS - 1)) =>
          /\ ret'.val = -1
          /\ UNCHANGED << sys_event_put, sys_event_get, sys_events, task_posts, enq_log >>
          /\ sys_event_count' = NextEventCount(sys_event_count)
          /\ sys_full_signaled' = 1
      ]_vars

\* C2 witness: a sys_queue call has just been rejected with 31 entries pending.
C2_Witness ==
    /\ ret = [op |-> "sys_queue", val |-> -1]
    /\ Pending = SYS_NEVENTS - 1
    /\ sys_shutdown_requested = 0

(* ---- C17 --------------------------------------------------------------- *)
\* C17: in every state the distance from the read index to the write index,
\* modulo 32, is the number of entries enqueued and not yet drained, and
\* that number stays below 31.
C17_LenIsPending ==
    /\ sys_queue_len(sys_event_put, sys_event_get) = Pending
    /\ Pending < SYS_NEVENTS - 1

(* ---- C3 ---------------------------------------------------------------- *)
\* C3: while not shut down, an enqueue (by sys_queue, or by the sweep on
\* expiry) succeeds if and only if fewer than 31 entries are pending.
C3_SucceedsIffRoom ==
    [][/\ (FillCall /\ (sys_shutdown_requested = 0)) =>
              /\ (ret'.val # -1) <=> (Pending < SYS_NEVENTS - 1)
              /\ (ret'.val # -1) <=> (enq_log' # enq_log)
              /\ (enq_log' # enq_log) =>
                     /\ Len(enq_log') = Len(enq_log) + 1
                     /\ sys_events'[sys_event_put].handler # NULL
       /\ ((Len(fired') > Len(fired)) /\ (sys_shutdown_requested = 0)) =>
              /\ fired'[Len(fired')].queued <=> (Pending < SYS_NEVENTS - 1)
              /\ fired'[Len(fired')].queued <=> (enq_log' # enq_log)
      ]_vars

\* C3 witness: 31 entries were enqueued, the next call was rejected, one
\* entry was drained, and the call after that has just succeeded.
C3_Witness ==
    /\ Len(enq_log) = SYS_NEVENTS
    /\ Len(inv_log) = 1
    /\ sys_event_count = SYS_NEVENTS + 1
    /\ ret = [op |-> "sys_queue", val |-> sys_event_count]

(* ---- C8 ---------------------------------------------------------------- *)
\* C8: after sys_shutdown every sys_queue and sys_timeout_add call returns -1,
\* adds no queue entry and arms no timer slot.
C8_ShutdownRejects ==
    [][((sys_shutdown_requested = 1)
          /\ (SysQueue(MaxQueueCalls) \/ TimeoutAdd(MaxAdds, SYS_TIMER_PERIOD))) =>
          /\ ret'.val = -1
          /\ UNCHANGED << sys_events, sys_event_put, task_posts, enq_log,
                          sys_timeouts, timer_armed, added >>
      ]_vars

\* C8 witness: sys_queue has just been rejected after sys_shutdown, with
\* room in the queue.
C8_Witness ==
    /\ sys_shutdown_requested = 1
    /\ ret = [op |-> "sys_queue", val |-> -1]
    /\ sys_queue_len(sys_event_put, sys_event_get) < SYS_NEVENTS - 1

(* ---- C1 ---------------------------------------------------------------- *)
\* s is an initial segment of t
IsPrefix(s, t) == (Len(s) <= Len(t)) /\ (\A k \in DOMAIN s : s[k] = t[k])

\* most entries FairFifo can enqueue
MaxLog == MaxQueueCalls + MaxAdds

Window ==
    [k \in 1..sys_queue_len(sys_event_put, sys_event_get) |->
        sys_events[(sys_event_get + k - 1) % SYS_NEVENTS]]

\* C9: when the tick-sweep enqueues in the middle of a normal-context
\* sys_queue, both entries end up in slots of their own with their own
\* handler, ctx and id, and the write index advances by the number of
\* entries written: once sys_queue has returned, the slots between the
\* indices hold exactly the entries enqueued and not yet drained.
C9_PreemptedEnqueueSafe ==
    (pc = "idle") =>
        /\ Len(Window) + Len(inv_log) = Len(enq_log)
        /\ \A k \in DOMAIN enq_log :
               \/ \E n \in DOMAIN inv_log : inv_log[n] = enq_log[k]
               \/ \E n \in DOMAIN Window :
                      Call(Window[n].handler, Window[n].ctx, Window[n].id) = enq_log[k]

====
